---- MODULE Spec2Model ----
(***************************************************************************)
(* Model of scripts/validate_snapshot.py: the snapshot validator.          *)
(*                                                                         *)
(* One run of the script is a behaviour: the module-level code, main()'s   *)
(* argument and connection set-up, the six checks inside the `with`        *)
(* block, the release of the connection and the report loop.               *)
(*                                                                         *)
(* Representation choices:                                                 *)
(*  - an Optional value is a sequence of length <= 1 (None is <<>>);       *)
(*  - a string built by the code (details, printed text) is the sequence   *)
(*    of its fragments, each fragment a record with the format text and    *)
(*    the values substituted; the empty string is <<>>;                    *)
(*  - a float ratio is the exact rational [num, den];                      *)
(*  - deck_cards is the bag of its deck_hash values (one per row), the     *)
(*    other stats tables are sequences of rows, player is its row count;   *)
(*  - the rows of a query without ORDER BY are returned in deck_hash       *)
(*    order; which rows survive a LIMIT is left open.                      *)
(***************************************************************************)
EXTENDS Integers, Sequences, FiniteSets, TLC

VARIABLES env, argv, db, pc, url, conn, checks, fault, reads, out, status, failed

vars == <<env, argv, db, pc, url, conn, checks, fault, reads, out, status, failed>>

-----------------------------------------------------------------------------
(* Optional values and Python truthiness *)

None == <<>>

Some(x) == <<x>>

\* `not s` for an Optional[str]: None and "" are falsy
Truthy(o) == o /= None /\ o[1] /= ""

-----------------------------------------------------------------------------
(* Bounds of the model *)

MaxDecks == 22

MaxRows == 2

MaxUses == 2

MaxCount == 1

MaxPlayers == 1

-----------------------------------------------------------------------------
(* Program constants *)

\* HAVING COUNT(*) <> 8
DeckSize == 8

\* LIMIT 20
SampleLimit == 20

\* --max-unknown-ratio default 0.30
DefaultMaxUnknownRatio == [num |-> 30, den |-> 100]

\* the tables of check_wins_uses_sanity, in the order of the list
StatsTables == <<"player_decks", "player_type_cards", "meta_deck_types",
                 "meta_type_cards", "meta_type_deck_ids">>

\* argparse: the defaults of main()'s three options applied to the command line
ParseArgs(a) ==
  [database_url |-> a.database_url,
   top_n |-> a.top_n,
   max_unknown_ratio |-> IF a.max_unknown_ratio = None
                         THEN DefaultMaxUnknownRatio
                         ELSE a.max_unknown_ratio[1]]

-----------------------------------------------------------------------------
(* CheckResult *)

CheckResult(name, ok, details) == [name |-> name, ok |-> ok, details |-> details]

\* the dataclass default details = ""
CheckResultOk(name) == CheckResult(name, TRUE, <<>>)

Frag(fmt, args) == [fmt |-> fmt, args |-> args]

-----------------------------------------------------------------------------
(* Queries *)

RECURSIVE SumUses(_)
\* COALESCE(SUM(uses),0) over a table
SumUses(t) == IF t = <<>> THEN 0 ELSE t[1].uses + SumUses(Tail(t))

\* lower-casing of the deck_type labels of the model
Lower(s) ==
  CASE s = "Unknown" -> "unknown"
    [] s = "UNKNOWN" -> "unknown"
    [] s = "Control" -> "control"
    [] OTHER -> s

\* deck_type ILIKE 'unknown': a pattern without wildcards, compared ignoring case
ILikeUnknown(s) == Lower(s) = "unknown"

\* the rows WHERE deck_type ILIKE 'unknown'
UnknownRows(t) == SelectSeq(t, LAMBDA r : ILikeUnknown(r.deck_type))

\* SELECT COUNT(*) FROM t WHERE wins > uses OR wins < 0 OR uses < 0
CountBadRows(t) ==
  Cardinality({i \in DOMAIN t :
                 t[i].wins > t[i].uses \/ t[i].wins < 0 \/ t[i].uses < 0})

\* GROUP BY deck_hash ... HAVING COUNT(*) <> 8
BadDeckGroups(deck_cards) ==
  {[deck |-> d, n |-> deck_cards[d]] : d \in {e \in DOMAIN deck_cards : deck_cards[e] /= DeckSize}}

RECURSIVE KSubsets(_, _)
\* the subsets of S with k elements (S a set of groups)
KSubsets(S, k) ==
  IF k = 0 THEN {{}}
  ELSE UNION {{T \cup {x} : T \in KSubsets({y \in S : y.deck > x.deck}, k - 1)} : x \in S}

\* variant: the LIMIT clause is missing
NoLimit(S, n) == {S}

\* LIMIT n without ORDER BY: any n of the rows (all of them when there are fewer)
Limit(S, n) ==
  IF Cardinality(S) <= n THEN {S}
  ELSE {S \ E : E \in KSubsets(S, Cardinality(S) - n)}

RECURSIVE RowsOf(_)
\* fetchall(): the rows as a list
RowsOf(S) ==
  IF S = {} THEN <<>>
  ELSE LET m == CHOOSE x \in S : \A y \in S : x.deck <= y.deck
       IN <<m>> \o RowsOf(S \ {m})

\* the possible results of the query of check_deck_cards_integrity
DeckQuery(deck_cards) == {RowsOf(S) : S \in Limit(BadDeckGroups(deck_cards), SampleLimit)}

-----------------------------------------------------------------------------
(* Rational arithmetic for `ratio > max_unknown_ratio` *)

Sign(x) == IF x < 0 THEN -1 ELSE 1

\* a > b for a = a.num/a.den, b = b.num/b.den, denominators non-zero
RatGt(a, b) ==
  LET s == Sign(a.den) * Sign(b.den)
  IN s * a.num * b.den > s * b.num * a.den

-----------------------------------------------------------------------------
(* The six checks, as functions of what their queries returned *)

DeckCardsName == "deck_cards: each deck_hash has exactly 8 cards"

check_deck_cards_integrity(rows) ==
  IF rows /= <<>>
  THEN CheckResult(DeckCardsName, FALSE,
         <<Frag("Found deck_hash with != 8 cards (showing up to 20):", <<>>)>>
         \o [i \in DOMAIN rows |-> Frag("  {} -> {}", <<rows[i].deck, rows[i].n>>)])
  ELSE CheckResultOk(DeckCardsName)

WinsUsesName == "wins/uses sanity (wins<=uses and non-negative)"

RECURSIVE BadTablesFirstOnly(_, _)
\* variant: the loop stops at the first offending table
BadTablesFirstOnly(d, i) ==
  IF i > Len(StatsTables) THEN <<>>
  ELSE LET t == StatsTables[i]
           n == CountBadRows(d[t])
       IN IF n > 0 THEN <<Frag("{} has {} bad rows", <<t, n>>)>>
          ELSE BadTablesFirstOnly(d, i + 1)

RECURSIVE BadTables(_, _)
\* the loop of check_wins_uses_sanity over tables[i..]: the list `bad`
BadTables(d, i) ==
  IF i > Len(StatsTables) THEN <<>>
  ELSE LET t == StatsTables[i]
           n == CountBadRows(d[t])
       IN (IF n > 0 THEN <<Frag("{} has {} bad rows", <<t, n>>)>> ELSE <<>>)
          \o BadTables(d, i + 1)

check_wins_uses_sanity(d) ==
  LET bad == BadTables(d, 1)
  IN IF bad /= <<>>
     THEN CheckResult(WinsUsesName, FALSE, bad)
     ELSE CheckResultOk(WinsUsesName)

MetaNotEmptyName == "meta sanity: meta_deck_types not empty"

\* variant: the failing result is built without details
check_meta_not_empty_bare(d) ==
  LET n == Len(d.meta_deck_types)
  IN IF n = 0
     THEN CheckResult(MetaNotEmptyName, FALSE, <<>>)
     ELSE CheckResultOk(MetaNotEmptyName)

check_meta_not_empty(d) ==
  LET n == Len(d.meta_deck_types)
  IN IF n = 0
     THEN CheckResult(MetaNotEmptyName, FALSE, <<Frag("meta_deck_types is empty", <<>>)>>)
     ELSE CheckResultOk(MetaNotEmptyName)

UnknownRatioName == "deck_type sanity: unknown ratio"

\* variant: a ratio equal to the ceiling fails (>= for >)
check_unknown_deck_type_explosion_strict(d, max_unknown_ratio) ==
  LET total == SumUses(d.meta_deck_types)
      unknown == SumUses(UnknownRows(d.meta_deck_types))
      ratio == [num |-> unknown, den |-> total]
  IN IF total = 0
     THEN CheckResult(UnknownRatioName, FALSE,
            <<Frag("meta_deck_types total uses is 0", <<>>)>>)
     ELSE IF ~RatGt(max_unknown_ratio, ratio)
     THEN CheckResult(UnknownRatioName, FALSE,
            <<Frag("Unknown uses ratio too high: {}/{} = {} (max {})",
                   <<unknown, total, ratio, max_unknown_ratio>>)>>)
     ELSE CheckResult(UnknownRatioName, TRUE,
            <<Frag("Unknown ratio: {}/{} = {}", <<unknown, total, ratio>>)>>)

check_unknown_deck_type_explosion(d, max_unknown_ratio) ==
  LET total == SumUses(d.meta_deck_types)
      unknown == SumUses(UnknownRows(d.meta_deck_types))
      ratio == [num |-> unknown, den |-> total]
  IN IF total = 0
     THEN CheckResult(UnknownRatioName, FALSE,
            <<Frag("meta_deck_types total uses is 0", <<>>)>>)
     ELSE IF RatGt(ratio, max_unknown_ratio)
     THEN CheckResult(UnknownRatioName, FALSE,
            <<Frag("Unknown uses ratio too high: {}/{} = {} (max {})",
                   <<unknown, total, ratio, max_unknown_ratio>>)>>)
     ELSE CheckResult(UnknownRatioName, TRUE,
            <<Frag("Unknown ratio: {}/{} = {}", <<unknown, total, ratio>>)>>)

TotalsName == "totals sanity: meta_obs between topn_obs and 2*topn_obs"

\* variant: the upper bound is exclusive (>= for >)
check_totals_sanity_topn_vs_meta_strict(d) ==
  LET topn_obs == SumUses(d.player_decks)
      meta_obs == SumUses(d.meta_deck_types)
  IN IF topn_obs = 0
     THEN CheckResult(TotalsName, FALSE,
            <<Frag("topn_obs (SUM(player_decks.uses)) is 0; did ETL write player_decks?", <<>>)>>)
     ELSE IF meta_obs < topn_obs
     THEN CheckResult(TotalsName, FALSE,
            <<Frag("meta_obs < topn_obs ({} < {})", <<meta_obs, topn_obs>>)>>)
     ELSE IF meta_obs >= 2 * topn_obs
     THEN CheckResult(TotalsName, FALSE,
            <<Frag("meta_obs > 2*topn_obs ({} > {})", <<meta_obs, 2 * topn_obs>>)>>)
     ELSE CheckResult(TotalsName, TRUE,
            <<Frag("topn_obs={}, meta_obs={}, ratio={}",
                   <<topn_obs, meta_obs, [num |-> meta_obs, den |-> topn_obs]>>)>>)

check_totals_sanity_topn_vs_meta(d) ==
  LET topn_obs == SumUses(d.player_decks)
      meta_obs == SumUses(d.meta_deck_types)
  IN IF topn_obs = 0
     THEN CheckResult(TotalsName, FALSE,
            <<Frag("topn_obs (SUM(player_decks.uses)) is 0; did ETL write player_decks?", <<>>)>>)
     ELSE IF meta_obs < topn_obs
     THEN CheckResult(TotalsName, FALSE,
            <<Frag("meta_obs < topn_obs ({} < {})", <<meta_obs, topn_obs>>)>>)
     ELSE IF meta_obs > 2 * topn_obs
     THEN CheckResult(TotalsName, FALSE,
            <<Frag("meta_obs > 2*topn_obs ({} > {})", <<meta_obs, 2 * topn_obs>>)>>)
     ELSE CheckResult(TotalsName, TRUE,
            <<Frag("topn_obs={}, meta_obs={}, ratio={}",
                   <<topn_obs, meta_obs, [num |-> meta_obs, den |-> topn_obs]>>)>>)

PlayerCountSkippedName == "player count matches --top-n (skipped)"

PlayerCountName == "player count matches --top-n"

\* variant: `if not expected_topn` for `if expected_topn is None`
check_expected_topn_player_count_falsy(d, expected_topn) ==
  IF expected_topn = None \/ expected_topn = Some(0)
  THEN CheckResultOk(PlayerCountSkippedName)
  ELSE LET n == d.player
       IN IF n /= expected_topn[1]
          THEN CheckResult(PlayerCountName, FALSE,
                 <<Frag("player table count = {}, expected {}", <<n, expected_topn[1]>>)>>)
          ELSE CheckResult(PlayerCountName, TRUE, <<Frag("player={}", <<n>>)>>)

check_expected_topn_player_count(d, expected_topn) ==
  IF expected_topn = None
  THEN CheckResultOk(PlayerCountSkippedName)
  ELSE LET n == d.player
       IN IF n /= expected_topn[1]
          THEN CheckResult(PlayerCountName, FALSE,
                 <<Frag("player table count = {}, expected {}", <<n, expected_topn[1]>>)>>)
          ELSE CheckResult(PlayerCountName, TRUE, <<Frag("player={}", <<n>>)>>)

-----------------------------------------------------------------------------
(* Output and the report loop *)

OutLine(stream, fmt, args) == [stream |-> stream, fmt |-> fmt, args |-> args]

SetupMessage == "[VALIDATE] FAIL: DATABASE_URL is not set (and --database-url not provided)."

\* cli_value or os.getenv("DATABASE_URL")
GetDatabaseUrl(cli_value, environ) == IF Truthy(cli_value) THEN cli_value ELSE environ

RECURSIVE CountFailed(_)
\* the counter `failed` after the loop over the results
CountFailed(cs) ==
  IF cs = <<>> THEN 0
  ELSE (IF ~cs[1].ok THEN 1 ELSE 0) + CountFailed(Tail(cs))

RECURSIVE ReportLines(_)
\* what the loop prints: a status line per result, then its details when non-empty
ReportLines(cs) ==
  IF cs = <<>> THEN <<>>
  ELSE LET c == cs[1]
       IN <<OutLine("stdout", "  - {}: {}", <<IF c.ok THEN "OK" ELSE "FAIL", c.name>>)>>
          \o (IF c.details /= <<>>
              THEN <<OutLine("stdout", "      {}", c.details)>>
              ELSE <<>>)
          \o ReportLines(Tail(cs))

\* variant: the exit status flags a failure only from the second one on
ExitStatusOnMany(n) == IF n > 1 THEN 1 ELSE 0

\* if failed: sys.exit(1), else sys.exit(0)
ExitStatus(n) == IF n /= 0 THEN 1 ELSE 0

-----------------------------------------------------------------------------
(* The run *)

\* module level: load_dotenv(), DATABASE_URL = os.getenv(...), raise SystemExit(msg)
ModuleLevel ==
  /\ pc = "module"
  /\ IF ~Truthy(env)
     THEN /\ pc' = "done"
          /\ status' = Some(1)
          /\ out' = Append(out, OutLine("stderr", SetupMessage, <<>>))
     ELSE /\ pc' = "main"
          /\ UNCHANGED <<status, out>>
  /\ UNCHANGED <<env, argv, db, url, conn, checks, fault, reads, failed>>

\* main(): parse_args, _get_database_url (with _fail), create_engine
ResolveUrl ==
  /\ pc = "main"
  /\ LET args == ParseArgs(argv)
         u == GetDatabaseUrl(args.database_url, env)
     IN IF ~Truthy(u)
        THEN /\ pc' = "done"
             /\ status' = Some(1)
             /\ out' = Append(out, OutLine("stdout", SetupMessage, <<>>))
             /\ UNCHANGED url
        ELSE /\ pc' = "connect"
             /\ url' = u
             /\ UNCHANGED <<status, out>>
  /\ UNCHANGED <<env, argv, db, conn, checks, fault, reads, failed>>

\* an exception that nothing catches: traceback, exit status 1
Uncaught(what) ==
  /\ pc' = "done"
  /\ status' = Some(1)
  /\ out' = Append(out, OutLine("stderr", "Traceback (most recent call last): {}", <<what>>))

\* with engine.connect() as conn: the snapshot may be unreachable
Connect ==
  /\ pc = "connect"
  /\ \E reachable \in BOOLEAN :
       IF reachable
       THEN /\ conn' = "open"
            /\ pc' = "deck_cards"
            /\ UNCHANGED <<status, out>>
       ELSE /\ Uncaught("connect")
            /\ UNCHANGED conn
  /\ UNCHANGED <<env, argv, db, url, checks, fault, reads, failed>>

\* a query of check `name` raises: the exception leaves the with block
Raise(name) ==
  /\ fault' = Some(name)
  /\ pc' = "exit_with"
  /\ UNCHANGED checks

\* checks.append(result), on to the next statement
Collect(result, next) ==
  /\ checks' = Append(checks, result)
  /\ pc' = next
  /\ UNCHANGED fault

\* variant: a failing deck check ends the with block at once
RunDeckCardsStopOnFail ==
  /\ pc = "deck_cards"
  /\ reads' = reads \cup {"deck_cards"}
  /\ \E raised \in BOOLEAN :
       IF raised
       THEN Raise("check_deck_cards_integrity")
       ELSE \E rows \in DeckQuery(db.deck_cards) :
              LET r == check_deck_cards_integrity(rows)
              IN Collect(r, IF r.ok THEN "wins_uses" ELSE "exit_with")
  /\ UNCHANGED <<env, argv, db, url, conn, out, status, failed>>

RunDeckCards ==
  /\ pc = "deck_cards"
  /\ reads' = reads \cup {"deck_cards"}
  /\ \E raised \in BOOLEAN :
       IF raised
       THEN Raise("check_deck_cards_integrity")
       ELSE \E rows \in DeckQuery(db.deck_cards) :
              Collect(check_deck_cards_integrity(rows), "wins_uses")
  /\ UNCHANGED <<env, argv, db, url, conn, out, status, failed>>

\* q = 0: no query raises; q > 0: the query on tables[q] raises
RunWinsUses ==
  /\ pc = "wins_uses"
  /\ \E q \in 0 .. Len(StatsTables) :
       /\ reads' = reads \cup {StatsTables[i] : i \in 1 .. (IF q = 0 THEN Len(StatsTables) ELSE q)}
       /\ IF q > 0
          THEN Raise("check_wins_uses_sanity")
          ELSE Collect(check_wins_uses_sanity(db), "meta_not_empty")
  /\ UNCHANGED <<env, argv, db, url, conn, out, status, failed>>

\* variant: a query that raises is caught and becomes a failing result
RunMetaNotEmptyCaught ==
  /\ pc = "meta_not_empty"
  /\ reads' = reads \cup {"meta_deck_types"}
  /\ \E raised \in BOOLEAN :
       IF raised
       THEN /\ fault' = Some("check_meta_not_empty")
            /\ checks' = Append(checks, CheckResult(MetaNotEmptyName, FALSE,
                                                   <<Frag("{}", <<"OperationalError">>)>>))
            /\ pc' = "expected_topn"
       ELSE Collect(check_meta_not_empty(db), "expected_topn")
  /\ UNCHANGED <<env, argv, db, url, conn, out, status, failed>>

RunMetaNotEmpty ==
  /\ pc = "meta_not_empty"
  /\ reads' = reads \cup {"meta_deck_types"}
  /\ \E raised \in BOOLEAN :
       IF raised
       THEN Raise("check_meta_not_empty")
       ELSE Collect(check_meta_not_empty(db), "expected_topn")
  /\ UNCHANGED <<env, argv, db, url, conn, out, status, failed>>

\* no query is issued, and none can raise, when --top-n is omitted
RunExpectedTopn ==
  /\ pc = "expected_topn"
  /\ LET expected_topn == ParseArgs(argv).top_n
     IN IF expected_topn = None
        THEN /\ Collect(check_expected_topn_player_count(db, expected_topn), "totals")
             /\ UNCHANGED reads
        ELSE /\ reads' = reads \cup {"player"}
             /\ \E raised \in BOOLEAN :
                  IF raised
                  THEN Raise("check_expected_topn_player_count")
                  ELSE Collect(check_expected_topn_player_count(db, expected_topn), "totals")
  /\ UNCHANGED <<env, argv, db, url, conn, out, status, failed>>

\* q = 1: the sum over player_decks raises; q = 2: the sum over meta_deck_types
RunTotals ==
  /\ pc = "totals"
  /\ \E q \in 0 .. 2 :
       /\ reads' = reads \cup (IF q = 1 THEN {"player_decks"}
                               ELSE {"player_decks", "meta_deck_types"})
       /\ IF q > 0
          THEN Raise("check_totals_sanity_topn_vs_meta")
          ELSE Collect(check_totals_sanity_topn_vs_meta(db), "unknown_ratio")
  /\ UNCHANGED <<env, argv, db, url, conn, out, status, failed>>

RunUnknownRatio ==
  /\ pc = "unknown_ratio"
  /\ reads' = reads \cup {"meta_deck_types"}
  /\ \E raised \in BOOLEAN :
       IF raised
       THEN Raise("check_unknown_deck_type_explosion")
       ELSE Collect(check_unknown_deck_type_explosion(db, ParseArgs(argv).max_unknown_ratio),
                    "exit_with")
  /\ UNCHANGED <<env, argv, db, url, conn, out, status, failed>>

\* variant: the connection is closed by a statement after the checks, which an
\* exception skips (no with block)
ExitWithLeak ==
  /\ pc = "exit_with"
  /\ IF fault /= None
     THEN /\ Uncaught(fault[1])
          /\ UNCHANGED conn
     ELSE /\ conn' = "closed"
          /\ pc' = "report"
          /\ UNCHANGED <<status, out>>
  /\ UNCHANGED <<env, argv, db, url, checks, fault, reads, failed>>

\* the end of the with block: the connection is closed; a pending exception goes on
\* out of main(), otherwise the report follows
ExitWith ==
  /\ pc = "exit_with"
  /\ conn' = "closed"
  /\ IF fault /= None
     THEN Uncaught(fault[1])
     ELSE /\ pc' = "report"
          /\ UNCHANGED <<status, out>>
  /\ UNCHANGED <<env, argv, db, url, checks, fault, reads, failed>>

\* the report loop and the exit
Report ==
  /\ pc = "report"
  /\ failed' = CountFailed(checks)
  /\ out' = out \o <<OutLine("stdout", "[VALIDATE] RESULTS", <<>>)>>
                \o ReportLines(checks)
                \o (IF failed' /= 0
                    THEN <<OutLine("stdout", "[VALIDATE] FAILED ({} checks).", <<failed'>>)>>
                    ELSE <<OutLine("stdout", "[VALIDATE] PASSED.", <<>>)>>)
  /\ status' = Some(ExitStatus(failed'))
  /\ pc' = "done"
  /\ UNCHANGED <<env, argv, db, url, conn, checks, fault, reads>>

Next ==
  \/ ModuleLevel
  \/ ResolveUrl
  \/ Connect
  \/ RunDeckCards
  \/ RunWinsUses
  \/ RunMetaNotEmpty
  \/ RunExpectedTopn
  \/ RunTotals
  \/ RunUnknownRatio
  \/ ExitWith
  \/ Report

-----------------------------------------------------------------------------
(* Initial states: the environment, the command line and the snapshot of a run *)

EnvUrl == "postgresql://env/snapshot"

CliUrl == "postgresql://cli/snapshot"

\* the sequences over `rows` of length at most n
Tables(rows, n) == UNION {[1 .. k -> rows] : k \in 0 .. n}

\* a table of (uses, wins) rows as rows of meta_deck_types with a classified deck_type
WithType(t) == [i \in DOMAIN t |-> [deck_type |-> "Control", uses |-> t[i].uses, wins |-> t[i].wins]]

Row(u, w) == [uses |-> u, wins |-> w]

MetaRow(ty, u, w) == [deck_type |-> ty, uses |-> u, wins |-> w]

\* a snapshot on which every check passes
GoodDb ==
  [deck_cards |-> [d \in 1 .. 1 |-> DeckSize],
   player |-> 1,
   player_decks |-> <<Row(2, 1)>>,
   player_type_cards |-> <<Row(1, 1)>>,
   meta_deck_types |-> <<MetaRow("Control", 3, 1)>>,
   meta_type_cards |-> <<Row(1, 0)>>,
   meta_type_deck_ids |-> <<Row(1, 1)>>]

NoArgs == [database_url |-> None, top_n |-> None, max_unknown_ratio |-> None]

InitRun(e, a, d) ==
  /\ env = e
  /\ argv = a
  /\ db = d
  /\ pc = "module"
  /\ url = None
  /\ conn = "none"
  /\ checks = <<>>
  /\ fault = None
  /\ reads = {}
  /\ out = <<>>
  /\ status = None
  /\ failed = 0

\* every way to set or omit the connection target and the options, over sample tables
Init ==
  \E e \in {None, Some(""), Some(EnvUrl)},
     cli \in {None, Some(""), Some(CliUrl)},
     n \in {None} \cup {Some(k) : k \in 0 .. MaxPlayers},
     r \in {None, Some([num |-> 1, den |-> 2])},
     players \in 0 .. MaxPlayers,
     decks \in {<<>>, <<DeckSize>>, <<DeckSize, 7>>},
     pd \in {<<>>, <<Row(2, 1)>>, <<Row(1, 2)>>},
     mdt \in {<<>>, <<MetaRow("Control", 3, 1)>>,
              <<MetaRow("Unknown", 2, 1), MetaRow("Control", 1, 0)>>,
              <<MetaRow("Control", 5, 6)>>},
     ptc \in {<<>>, <<Row(1, -1)>>},
     mtc \in {<<Row(1, 1)>>, <<Row(-1, -2)>>},
     mtd \in {<<Row(0, 0)>>, <<Row(5, 6), Row(0, 1)>>} :
    InitRun(e,
            [database_url |-> cli, top_n |-> n, max_unknown_ratio |-> r],
            [deck_cards |-> decks, player |-> players, player_decks |-> pd,
             player_type_cards |-> ptc, meta_deck_types |-> mdt,
             meta_type_cards |-> mtc, meta_type_deck_ids |-> mtd])

Spec == Init /\ [][Next]_vars

\* deck_cards with nd decks of which the decks lo..hi have c rows instead of 8
DeckBags ==
  {[d \in 1 .. nd |-> IF lo <= d /\ d <= hi THEN c ELSE DeckSize] :
     nd \in 0 .. MaxDecks, lo \in 1 .. MaxDecks, hi \in 0 .. MaxDecks, c \in {1, 7, 9}}

InitDeck ==
  \E decks \in DeckBags : InitRun(Some(EnvUrl), NoArgs, [GoodDb EXCEPT !.deck_cards = decks])

SpecDeck == InitDeck /\ [][Next]_vars

CounterRows == [uses : -1 .. MaxCount, wins : -1 .. MaxCount]

SampleTables == {<<>>, <<Row(5, 5)>>, <<Row(5, 6)>>, <<Row(0, -1), Row(1, 0), Row(-1, -1)>>}

\* every combination of sample tables, and every small table in one place
InitCounters ==
  \/ \E pd \in SampleTables, ptc \in SampleTables, mdt \in SampleTables,
        mtc \in SampleTables, mtd \in SampleTables :
       InitRun(Some(EnvUrl), NoArgs,
               [GoodDb EXCEPT !.player_decks = pd, !.player_type_cards = ptc,
                              !.meta_deck_types = WithType(mdt),
                              !.meta_type_cards = mtc, !.meta_type_deck_ids = mtd])
  \/ \E i \in DOMAIN StatsTables, t \in Tables(CounterRows, MaxRows) :
       InitRun(Some(EnvUrl), NoArgs,
               [GoodDb EXCEPT ![StatsTables[i]] =
                  IF StatsTables[i] = "meta_deck_types" THEN WithType(t) ELSE t])

SpecCounters == InitCounters /\ [][Next]_vars

UsesRows == [uses : -1 .. MaxUses, wins : {0}]

InitTotals ==
  \E pd \in Tables(UsesRows, MaxRows), mdt \in Tables(UsesRows, MaxRows) :
    InitRun(Some(EnvUrl), NoArgs,
            [GoodDb EXCEPT !.player_decks = pd, !.meta_deck_types = WithType(mdt)])

SpecTotals == InitTotals /\ [][Next]_vars

LabelledRows == [deck_type : {"Unknown", "unknown", "Control"}, uses : -1 .. MaxUses, wins : {0}]

Ceilings ==
  {None, Some([num |-> 0, den |-> 1]), Some([num |-> 1, den |-> 3]), Some([num |-> 1, den |-> 2])}

InitUnknown ==
  \E mdt \in Tables(LabelledRows, MaxRows), r \in Ceilings :
    InitRun(Some(EnvUrl), [NoArgs EXCEPT !.max_unknown_ratio = r],
            [GoodDb EXCEPT !.meta_deck_types = mdt])

SpecUnknown == InitUnknown /\ [][Next]_vars

-----------------------------------------------------------------------------
(* Vocabulary of the properties *)

\* the catalog: the checks in the order main() calls them
Catalog ==
  <<"check_deck_cards_integrity", "check_wins_uses_sanity", "check_meta_not_empty",
    "check_expected_topn_player_count", "check_totals_sanity_topn_vs_meta",
    "check_unknown_deck_type_explosion">>

\* the names a result of catalog entry i can carry
CatalogNames ==
  <<{DeckCardsName}, {WinsUsesName}, {MetaNotEmptyName},
    {PlayerCountName, PlayerCountSkippedName}, {TotalsName}, {UnknownRatioName}>>

\* the with block was left without an exception
RanToEnd == fault = None /\ (pc \in {"exit_with", "report"} \/ (pc = "done" /\ conn = "closed"))

\* the report was printed and the process has exited
Reported == pc = "done" /\ fault = None /\ conn = "closed"

ReportPrinted == \E i \in DOMAIN out : out[i].fmt = "[VALIDATE] RESULTS"

FailedIndexes == {i \in DOMAIN checks : ~checks[i].ok}

\* the process ended on the set-up message, before any connection
SetupFailed ==
  /\ pc = "done"
  /\ status = Some(1)
  /\ conn = "none"
  /\ checks = <<>>
  /\ reads = {}
  /\ Len(out) = 1
  /\ out[1].fmt = SetupMessage

RECURSIVE TotalUses(_, _)
\* the sum of uses over the rows of t whose index is in I
TotalUses(t, I) ==
  IF I = {} THEN 0
  ELSE LET i == CHOOSE j \in I : TRUE
       IN t[i].uses + TotalUses(t, I \ {i})

AllUses(t) == TotalUses(t, DOMAIN t)

UnknownUses(t) ==
  TotalUses(t, {i \in DOMAIN t : t[i].deck_type \in {"unknown", "Unknown", "UNKNOWN"}})

RowSane(r) == 0 <= r.wins /\ r.wins <= r.uses

OffendingRows(t) == {i \in DOMAIN db[t] : ~RowSane(db[t][i])}

Offending(t) == OffendingRows(t) /= {}

StatsTableSet == {StatsTables[i] : i \in DOMAIN StatsTables}

MalformedDecks == {d \in DOMAIN db.deck_cards : db.deck_cards[d] /= 8}

-----------------------------------------------------------------------------
(* C1 *)

\* C1: at every moment the results collected so far are those of the first catalog
\* entries, one each and in catalog order, and a run in which no query raised leaves
\* the with block with exactly six results (deck cardinality, counters sanity,
\* non-empty catalog, expected population size, bounded ratio, unresolved-label
\* ratio), whichever of them failed.
C1_SixResultsInOrder ==
  /\ Len(checks) <= Len(Catalog)
  /\ \A i \in DOMAIN checks : checks[i].name \in CatalogNames[i]
  /\ RanToEnd => Len(checks) = Len(Catalog)

\* a reported run in which the first, the third and the last check failed
C1_Witness ==
  /\ Reported
  /\ Len(checks) = 6
  /\ ~checks[1].ok /\ checks[2].ok /\ ~checks[3].ok /\ ~checks[6].ok

-----------------------------------------------------------------------------
(* C2 *)

-----------------------------------------------------------------------------
(* C3 *)

\* C3: after the report the exit status is 0 exactly when no result has ok = false
\* and 1 exactly when some result has, and the failure count is the number of
\* results with ok = false, which is the number the FAILED line shows.
C3_ExitStatusIffNoFailure ==
  Reported =>
     /\ status = Some(0) <=> FailedIndexes = {}
     /\ status = Some(1) <=> FailedIndexes /= {}
     /\ failed = Cardinality(FailedIndexes)
     /\ FailedIndexes /= {} => out[Len(out)].args = <<Cardinality(FailedIndexes)>>

\* a report of six results of which exactly one failed
C3_Witness ==
  /\ Reported
  /\ Len(checks) = 6
  /\ Cardinality(FailedIndexes) = 1
  /\ status = Some(1)

-----------------------------------------------------------------------------
(* C4 *)

\* C4: the connection target is the command-line value when one is given and the
\* environment default otherwise, and the process ends in the set-up failure
\* exactly when neither is available; with a command-line target and no
\* environment default the run goes on to the checks.
C4_SetupFailureIffNoTarget ==
  /\ url /= None => url = (IF Truthy(argv.database_url) THEN argv.database_url ELSE env)
  /\ pc = "done" => (SetupFailed <=> (~Truthy(argv.database_url) /\ ~Truthy(env)))

-----------------------------------------------------------------------------
(* C5 *)

\* C5: with topn_obs the sum of player_decks.uses and meta_obs the sum of
\* meta_deck_types.uses (0 for an empty table), the bounded-ratio result is ok
\* exactly when topn_obs > 0 and topn_obs <= meta_obs <= 2 * topn_obs.
C5_BoundedRatio ==
  Len(checks) >= 5 =>
     LET topn_obs == AllUses(db.player_decks)
         meta_obs == AllUses(db.meta_deck_types)
     IN /\ checks[5].name = TotalsName
        /\ checks[5].ok <=> (topn_obs > 0 /\ topn_obs <= meta_obs /\ meta_obs <= 2 * topn_obs)

\* the inclusive upper bound: meta_obs = 2 * topn_obs passes
C5_Witness ==
  /\ Len(checks) >= 5
  /\ checks[5].ok
  /\ AllUses(db.player_decks) > 1
  /\ AllUses(db.meta_deck_types) = 2 * AllUses(db.player_decks)

-----------------------------------------------------------------------------
(* C6 *)

\* C6 as stated: the unresolved-label result is ok exactly when total > 0 and
\* unknown / total <= ceiling.
C6_OkIffPositiveTotalAndWithinCeiling ==
  Len(checks) >= 6 =>
     LET total == AllUses(db.meta_deck_types)
         unknown == UnknownUses(db.meta_deck_types)
         ceiling == ParseArgs(argv).max_unknown_ratio
     IN checks[6].ok <=> (total > 0 /\ unknown * ceiling.den <= ceiling.num * total)

\* C6 amended: the unresolved-label result is ok exactly when total is not 0 and
\* unknown / total does not exceed the ceiling; a ratio equal to the ceiling
\* passes and total = 0 fails whatever the ceiling is.
C6_OkIffNonZeroTotalAndWithinCeiling ==
  Len(checks) >= 6 =>
     LET total == AllUses(db.meta_deck_types)
         unknown == UnknownUses(db.meta_deck_types)
         ceiling == ParseArgs(argv).max_unknown_ratio
         within == IF total > 0
                   THEN unknown * ceiling.den <= ceiling.num * total
                   ELSE unknown * ceiling.den >= ceiling.num * total
     IN /\ checks[6].name = UnknownRatioName
        /\ checks[6].ok <=> (total /= 0 /\ within)

\* a ratio of exactly the ceiling, which passes
C6_Witness ==
  /\ Len(checks) >= 6
  /\ checks[6].ok
  /\ ParseArgs(argv).max_unknown_ratio = [num |-> 1, den |-> 2]
  /\ AllUses(db.meta_deck_types) = 2
  /\ UnknownUses(db.meta_deck_types) = 1

-----------------------------------------------------------------------------
(* C7 *)

\* the reasons of the counters result that name table t
ReasonsFor(t) == {i \in DOMAIN checks[2].details : checks[2].details[i].args[1] = t}

\* C7: the counters result is ok exactly when every row of every listed table has
\* 0 <= wins <= uses. Whatever the result, all listed tables were queried, and a
\* failing result has one reason per offending table, with that table's name and
\* its number of offending rows, and none for a table without offending rows.
C7_CountersSanity ==
  Len(checks) >= 2 =>
     /\ checks[2].name = WinsUsesName
     /\ checks[2].ok <=> (\A t \in StatsTableSet : ~Offending(t))
     /\ StatsTableSet \subseteq reads
     /\ ~checks[2].ok =>
          \A t \in StatsTableSet :
             IF Offending(t)
             THEN /\ Cardinality(ReasonsFor(t)) = 1
                  /\ \A i \in ReasonsFor(t) :
                       checks[2].details[i].args = <<t, Cardinality(OffendingRows(t))>>
             ELSE ReasonsFor(t) = {}

\* the first and the last table both offend, the last with two rows
C7_Witness ==
  /\ Len(checks) >= 2
  /\ ~checks[2].ok
  /\ Offending("player_decks")
  /\ ~Offending("meta_deck_types")
  /\ Cardinality(OffendingRows("meta_type_deck_ids")) = 2

-----------------------------------------------------------------------------
(* C8 *)

\* the (deck identifier, count) pairs listed in the deck result's details
DeckSample == Tail(checks[1].details)

\* C8: the deck cardinality result fails exactly when some deck identifier has a
\* row count other than 8; a failing result lists between 1 and 20 pairs, each a
\* deck whose row count is not 8, with that row count.
C8_DeckCardinality ==
  Len(checks) >= 1 =>
     /\ checks[1].name = DeckCardsName
     /\ ~checks[1].ok <=> MalformedDecks /= {}
     /\ ~checks[1].ok =>
          /\ 1 <= Len(DeckSample) /\ Len(DeckSample) <= 20
          /\ \A i \in DOMAIN DeckSample :
               LET deck == DeckSample[i].args[1]
                   n == DeckSample[i].args[2]
               IN deck \in MalformedDecks /\ n = db.deck_cards[deck]

\* more than 20 malformed decks beside well-formed ones: 20 pairs are listed
C8_Witness ==
  /\ Len(checks) >= 1
  /\ ~checks[1].ok
  /\ Cardinality(MalformedDecks) > 20
  /\ MalformedDecks /= DOMAIN db.deck_cards
  /\ Len(DeckSample) = 20

-----------------------------------------------------------------------------
(* C9 *)

\* C9: without --top-n the population result is ok and the player table is never
\* read; with --top-n the result is ok exactly when the player table has that
\* many rows, 0 included.
C9_ExpectedPopulation ==
  /\ argv.top_n = None => "player" \notin reads
  /\ Len(checks) >= 4 =>
       IF argv.top_n = None
       THEN checks[4].ok
       ELSE checks[4].ok <=> db.player = argv.top_n[1]

\* --top-n 0 against a player table with a row: the check runs and fails
C9_Witness ==
  /\ Len(checks) >= 4
  /\ argv.top_n = Some(0)
  /\ db.player > 0
  /\ ~checks[4].ok
  /\ "player" \in reads

-----------------------------------------------------------------------------
(* C10 *)

\* C10: every result with ok = false has details that are a non-empty string.
C10_FailureHasDetails ==
  \A i \in DOMAIN checks :
     ~checks[i].ok =>
        /\ checks[i].details /= <<>>
        /\ \A j \in DOMAIN checks[i].details : checks[i].details[j].fmt /= ""

\* all six checks have run and all six failed
C10_Witness ==
  /\ Len(checks) = 6
  /\ \A i \in DOMAIN checks : ~checks[i].ok

-----------------------------------------------------------------------------
(* C11 *)

\* runs with and without a connection target, with and without --top-n, over a
\* consistent and an inconsistent snapshot
InitRelease ==
  \E e \in {None, Some(EnvUrl)},
     cli \in {None, Some(CliUrl)},
     n \in {None, Some(1)},
     mdt \in {<<>>, <<MetaRow("Control", 3, 1)>>, <<MetaRow("Unknown", 2, 3)>>},
     decks \in {<<DeckSize>>, <<DeckSize, 7>>} :
    InitRun(e, [NoArgs EXCEPT !.database_url = cli, !.top_n = n],
            [GoodDb EXCEPT !.meta_deck_types = mdt, !.deck_cards = decks])

\* the script is one sequential process: a step that can be taken is taken
SpecRelease == InitRelease /\ [][Next]_vars /\ WF_vars(Next)

\* the positions of the six check calls
CheckPositions ==
  {"deck_cards", "wins_uses", "meta_not_empty", "expected_topn", "totals", "unknown_ratio"}

\* where the connection is held, and where it has been given back
ConnectionScoped ==
  /\ pc \in CheckPositions => conn = "open"
  /\ conn = "open" => pc \in CheckPositions \cup {"exit_with"}
  /\ pc = "report" => (conn = "closed" /\ Len(checks) = Len(Catalog))
  /\ ReportPrinted => conn = "closed"
  /\ pc = "done" => conn \in {"none", "closed"}
  /\ (pc = "done" /\ fault /= None) => conn = "closed"

\* a step that runs a check (a result is collected, a table is read or a query
\* raises) starts with the connection held
ChecksOnlyWhileHeld ==
  (checks' /= checks \/ reads' /= reads \/ fault' /= fault) => conn = "open"

\* C11: a connection that was acquired is eventually released, after the sixth
\* check has returned and before the report is printed, or when a check raises
\* and the run aborts; no check runs while the connection is not held.
C11_ConnectionReleased ==
  /\ []ConnectionScoped
  /\ [][ChecksOnlyWhileHeld]_vars
  /\ (conn = "open") ~> (conn = "closed")

\* a check raised after the first result, and the connection has been released
C11_Witness ==
  /\ pc = "done"
  /\ fault = Some("check_wins_uses_sanity")
  /\ conn = "closed"
  /\ Len(checks) = 1
  /\ ~ReportPrinted

====
